---- MODULE Spec2Model ----
(***************************************************************************)
(* A model of the questionnaire site generator (src/main.py): the          *)
(* per-university aggregates, the alias/blacklist/whitelist reconciliation, *)
(* the FilenameMap slug assigner and the concurrent page writer.           *)
(*                                                                         *)
(* Text is modelled as a sequence of characters, so that the               *)
(* character-level conversions of the program (regex substitution,         *)
(* slugify, path splitting) are computed and not assumed.  An ASCII        *)
(* character is the one-character string; a Chinese character is written   *)
(* by its pinyin in capitals: "DA" is U+5927, "XUE" is U+5B66, "XUE_T" is  *)
(* its traditional form U+5B78, "YUAN" is U+9662, "XIAO" is U+6821.        *)
(***************************************************************************)
EXTENDS Integers, Sequences, FiniteSets, TLC

VARIABLES
    pc,                     \* position of the main program
    cur,                    \* the partition being processed: "active" or "archived"
    aliasFile,              \* required/alias.txt: a sequence of lines, each split at the separator
    blacklistFile,          \* required/blacklist.txt: a sequence of names
    whitelistFile,          \* required/whitelist.txt: a sequence of names
    colleges,               \* load_colleges()[1]: a sequence of <<key, province>>
    rows,                   \* history: the rows read from results_desensitized.csv so far
    universities,           \* the registry of the active partition
    universities_archived,  \* the registry of the archived partition
    li,                     \* index of the current line / key of the running loop
    ai,                     \* index of the current alias of the current alias line
    primary,                \* the name whose aggregate the local `primary` refers to
    log,                    \* history: what was printed as [warn] / [error]
    mapping,                \* FilenameMap.mapping: name -> slug
    used,                   \* FilenameMap.used: set of slugs
    lookups,                \* history: <<name, slug>> for each FilenameMap.__getitem__ call
    tasks,                  \* write_markdown_for_universities: the task list
    dirs,                   \* file system: the directories that exist
    files,                  \* file system: path -> content of the files written
    futures,                \* state of each submitted task
    collected,              \* the futures as_completed has yielded
    completed,              \* the completion counter
    raised                  \* the task whose failure the coordinator surfaced, or 0

vars == <<pc, cur, aliasFile, blacklistFile, whitelistFile, colleges, rows,
          universities, universities_archived, li, ai, primary, log,
          mapping, used, lookups, tasks, dirs, files, futures, collected,
          completed, raised>>

inputVars == <<aliasFile, blacklistFile, whitelistFile, colleges>>
registryVars == <<universities, universities_archived>>
loopVars == <<li, ai, primary>>
slugVars == <<mapping, used, lookups>>
writeVars == <<tasks, dirs, files, futures, collected, completed, raised>>

----------------------------------------------------------------------------
(* Bounds of the model *)

\* rows of results_desensitized.csv
MaxRows == 3
\* FilenameMap lookups in the slug specification
MaxLookups == 4
\* stands for len(QUESTIONNAIRE), 25 in the source
QuestionCount == 2
\* os.cpu_count()
CpuCount == 1
\* entities of the registry in the write specification
MaxEntities == 3
\* tasks of the fair-scheduling specification: one more than the pool has threads
MaxTasks == 5

----------------------------------------------------------------------------
(* Text helpers *)

Range(s) == {s[i] : i \in 1..Len(s)}

RECURSIVE Concat(_)
\* ''.join(parts) for a sequence of texts
Concat(parts) ==
    IF parts = <<>> THEN <<>> ELSE Head(parts) \o Concat(Tail(parts))

\* re.sub('[chars]', '', text): drop every character of the class
RemoveChars(text, chars) == SelectSeq(text, LAMBDA c : c \notin chars)

\* re.sub('[chars]', rep, text): replace every character of the class
ReplaceChars(text, chars, rep) ==
    [i \in 1..Len(text) |-> IF text[i] \in chars THEN rep ELSE text[i]]

\* needle occurs in text (str.find(needle) >= 0, re.search of a literal)
Contains(text, needle) ==
    \E i \in 0..(Len(text) - Len(needle)) :
        \A j \in 1..Len(needle) : text[i + j] = needle[j]

RECURSIVE Decimal(_)
\* str(n) for n >= 0
Decimal(n) ==
    LET d == <<"0", "1", "2", "3", "4", "5", "6", "7", "8", "9">>
    IN  IF n < 10 THEN <<d[n + 1]>> ELSE Decimal(n \div 10) \o <<d[(n % 10) + 1]>>

----------------------------------------------------------------------------
(* slugify (python-slugify, default options), as far as the alphabet of    *)
(* the model goes: transliterate to ASCII, lowercase, turn every run of    *)
(* characters outside [a-z0-9] into one hyphen, strip hyphens at the ends. *)

\* text-unidecode on one character: a CJK character becomes its pinyin
\* followed by a space, an ASCII character stays
Unidecode(c) ==
    CASE c = "DA" -> <<"D", "a", " ">>
      [] c = "XUE" -> <<"X", "u", "e", " ">>
      [] c = "XUE_T" -> <<"X", "u", "e", " ">>
      [] c = "YUAN" -> <<"Y", "u", "a", "n", " ">>
      [] c = "XIAO" -> <<"X", "i", "a", "o", " ">>
      [] OTHER -> <<c>>

\* str.lower on one character
Lower(c) ==
    CASE c = "A" -> "a"
      [] c = "B" -> "b"
      [] c = "D" -> "d"
      [] c = "X" -> "x"
      [] c = "Y" -> "y"
      [] OTHER -> c

SlugChars == {"a", "b", "d", "e", "i", "n", "o", "u", "x", "y",
              "0", "1", "2", "3", "4", "5", "6", "7", "8", "9"}

RECURSIVE CollapseHyphens(_)
\* re.sub('-{2,}', '-', text)
CollapseHyphens(text) ==
    IF Len(text) < 2 THEN text
    ELSE IF text[1] = "-" /\ text[2] = "-" THEN CollapseHyphens(Tail(text))
    ELSE <<text[1]>> \o CollapseHyphens(Tail(text))

RECURSIVE StripChars(_, _)
\* str.strip(chars)
StripChars(text, chars) ==
    IF text = <<>> THEN text
    ELSE IF text[1] \in chars THEN StripChars(Tail(text), chars)
    ELSE IF text[Len(text)] \in chars
         THEN StripChars(SubSeq(text, 1, Len(text) - 1), chars)
    ELSE text

slugify(text) ==
    LET ascii   == Concat([i \in 1..Len(text) |-> Unidecode(text[i])])
        lower   == [i \in 1..Len(ascii) |-> Lower(ascii[i])]
        hyphens == [i \in 1..Len(lower) |->
                       IF lower[i] \in SlugChars THEN lower[i] ELSE "-"]
    IN  StripChars(CollapseHyphens(hyphens), {"-"})

----------------------------------------------------------------------------
(* FilenameMap *)

\* FILENAME_PREPROCESS = re.compile(r'[/>|:&]')
FILENAME_PREPROCESS == {"/", ">", "|", ":", "&"}

\* base = slugify(FILENAME_PREPROCESS.sub('', name))
SlugBase(name) == slugify(RemoveChars(name, FILENAME_PREPROCESS))

\* a faulty variant of Candidate: the first suffix tried is -3
CandidateSkipTwo(base, idx) ==
    IF idx = 1 THEN base ELSE base \o <<"-">> \o Decimal(idx + 1)

\* the candidate tried with counter idx: base for idx = 1, then f'{base}-{idx}'
Candidate(base, idx) ==
    IF idx = 1 THEN base ELSE base \o <<"-">> \o Decimal(idx)

\* a faulty variant of Probe: the base is taken without looking at used
ProbeNoCheck(base, idx, usedSet) == Candidate(base, 1)

RECURSIVE Probe(_, _, _)
\* while slug in self.used: idx += 1; slug = f'{base}-{idx}'
Probe(base, idx, usedSet) ==
    IF Candidate(base, idx) \in usedSet
    THEN Probe(base, idx + 1, usedSet)
    ELSE Candidate(base, idx)

\* the slug __getitem__ returns for name in the state (m, u)
SlugOf(m, u, name) ==
    IF name \in DOMAIN m THEN m[name] ELSE Probe(SlugBase(name), 1, u)

\* self.mapping after __getitem__(name)
MappingAfter(m, u, name) ==
    IF name \in DOMAIN m THEN m
    ELSE [n \in DOMAIN m \cup {name} |->
             IF n = name THEN SlugOf(m, u, name) ELSE m[n]]

\* a faulty variant of UsedAfter: the slug is not recorded as used
UsedAfterNoAdd(m, u, name) == u

\* self.used after __getitem__(name)
UsedAfter(m, u, name) ==
    IF name \in DOMAIN m THEN u ELSE u \cup {SlugOf(m, u, name)}

EmptyMap == [n \in {} |-> <<>>]

----------------------------------------------------------------------------
(* The names of the model *)

\* "X" + U+5927 U+5B66 (a university), the same followed by "B", "X" +
\* U+5927 (no institution marker) and "Y" + U+5B66 U+9662 (a college)
NameP == <<"X", "DA", "XUE">>
NameA == <<"X", "DA", "XUE", "B">>
NameB == <<"X", "DA">>
NameY == <<"Y", "XUE", "YUAN">>

----------------------------------------------------------------------------
(* Data classes: IndexedContent, AnswerGroup, University *)

IndexedContent(aid, text) == [answer_id |-> aid, content |-> text]

\* University(): one empty AnswerGroup per question, no additional answers,
\* no credits.  Bins are numbered from 1 here, from 0 in the source.
NewUniversity ==
    [answers |-> [i \in 1..QuestionCount |-> <<>>],
     additional_answers |-> <<>>,
     credits |-> <<>>]

\* University.add_answer(index, answer), index counted from 1
AddAnswer(uni, index, answer) ==
    [uni EXCEPT !.answers[index] = Append(@, answer)]

\* a faulty variant of AddAdditionalAnswer: empty answers are kept too
AddAdditionalAnswerAlways(uni, answer) ==
    [uni EXCEPT !.additional_answers = Append(@, answer)]

\* University.add_additional_answer(answer)
AddAdditionalAnswer(uni, answer) ==
    IF answer.content # <<>>
    THEN [uni EXCEPT !.additional_answers = Append(@, answer)]
    ELSE uni

\* University.add_credit(credit)
AddCredit(uni, credit) == [uni EXCEPT !.credits = Append(@, credit)]

\* AnswerGroup.extend(other)
Extend(mine, other_group) == mine \o other_group

\* a faulty variant of CombineFrom: the other's bins are added as new bins
CombineFromAppendBins(self, other) ==
    [answers |-> self.answers \o other.answers,
     additional_answers |-> self.additional_answers \o other.additional_answers,
     credits |-> self.credits \o other.credits]

\* a faulty variant of CombineFrom: the other's records are put first
CombineFromPrepend(self, other) ==
    [answers |-> [i \in 1..Len(self.answers) |->
                     Extend(other.answers[i], self.answers[i])],
     additional_answers |-> other.additional_answers \o self.additional_answers,
     credits |-> other.credits \o self.credits]

\* University.combine_from(other): the value of self afterwards.  zip pairs
\* the bins by index (it raises only when the two bin counts differ); with
\* other the same object as self every list is extended by its own items.
CombineFrom(self, other) ==
    [answers |-> [i \in 1..Len(self.answers) |->
                     IF i <= Len(other.answers)
                     THEN Extend(self.answers[i], other.answers[i])
                     ELSE self.answers[i]],
     additional_answers |-> self.additional_answers \o other.additional_answers,
     credits |-> self.credits \o other.credits]

----------------------------------------------------------------------------
(* The registry: a dict (keys in insertion order) of references to         *)
(* University objects.  heap holds the object created for each name; an     *)
(* object outlives its key while a local variable still refers to it.       *)

EmptyRegistry == [keys |-> <<>>, heap |-> EmptyMap]

Keys(reg) == Range(reg.keys)

\* defaultdict.__getitem__: universities[name], created on a miss
GetOrCreate(reg, name) ==
    IF name \in Keys(reg) THEN reg
    ELSE [keys |-> Append(reg.keys, name),
          heap |-> [n \in DOMAIN reg.heap \cup {name} |->
                       IF n = name THEN NewUniversity ELSE reg.heap[n]]]

\* del universities[name] and universities.pop(name, None) for a key
DelKey(reg, name) ==
    [reg EXCEPT !.keys = SelectSeq(@, LAMBDA k : k # name)]

\* the object of `name` replaced by its new value
Store(reg, name, uni) == [reg EXCEPT !.heap[name] = uni]

----------------------------------------------------------------------------
(* Row loading *)

\* ARCHIVE_TIME; submission times are counted in seconds from it
ARCHIVE_TIME == 0

\* f'{submit_time:%Y 年 %m 月}': the cutoff is the first second of 2023-01
Month(t) == IF t < ARCHIVE_TIME THEN "2022-12" ELSE "2023-01"

\* NAME_PREPROCESS = re.compile(r'[\(\)（）【】#]'); the full-width brackets
\* are written "FW(", "FW)", "FW[", "FW]"
NAME_PREPROCESS == {"(", ")", "FW(", "FW)", "FW[", "FW]", "#"}

\* zhconv.convert(name, 'zh-cn'): traditional characters to simplified
Zhconv(name) ==
    [i \in 1..Len(name) |-> IF name[i] = "XUE_T" THEN "XUE" ELSE name[i]]

\* name = zhconv.convert(name, 'zh-cn'); NAME_PREPROCESS.sub('', name).strip()
NormalizeName(raw) == StripChars(RemoveChars(Zhconv(raw), NAME_PREPROCESS), {" "})

\* the credit line of a row
CreditText(row) ==
    LET anonymous_flag == row.anonymous = 2
        show_email_flag == ~anonymous_flag /\ row.show_email = 1
    IN  IF show_email_flag /\ row.email # <<>>
        THEN row.email \o <<" (", Month(row.time), ")">>
        ELSE <<"ANONYMOUS", " (", Month(row.time), ")">>

RECURSIVE AddAnswers(_, _, _, _)
\* for i, ans in enumerate(answers): uni.add_answer(i, IndexedContent(aid, ans))
AddAnswers(uni, aid, answers, i) ==
    IF i > Len(answers) THEN uni
    ELSE AddAnswers(AddAnswer(uni, i, IndexedContent(aid, answers[i])),
                    aid, answers, i + 1)

\* load_to_universities(universities, row): the registry afterwards
LoadToUniversities(reg, row) ==
    LET name == NormalizeName(row.name)
        reg1 == GetOrCreate(reg, name)
        uni1 == AddCredit(reg1.heap[name],
                          IndexedContent(row.aid, CreditText(row)))
        uni2 == AddAnswers(uni1, row.aid, row.answers, 1)
        uni3 == AddAdditionalAnswer(uni2, IndexedContent(row.aid, row.additional))
    IN  Store(reg1, name, uni3)

\* the answers of a well-formed row: one text per question
RowAnswers == [i \in 1..QuestionCount |-> <<"a", Decimal(i)[1]>>]

\* a well-formed row: the row number is its id
Row(aid, raw, t, anonymous, additional) ==
    [aid |-> aid, anonymous |-> anonymous, email |-> <<"e">>, show_email |-> 1,
     name |-> raw, answers |-> RowAnswers, additional |-> additional, time |-> t]

\* the rows tried by the program specification: the three names (one typed
\* with brackets), before the cutoff or at it
RowInputs(aid) ==
    { Row(aid, raw, t, 2, <<>>) :
        raw \in {NameP, <<"X", "DA", "XUE", "(", "B", ")">>, NameB},
        t \in {ARCHIVE_TIME - 1, ARCHIVE_TIME} }

\* a faulty variant of IsArchived: a row at the cutoff is archived
IsArchivedNotStrict(t) == t <= ARCHIVE_TIME

\* target = universities_archived if t < archive_cut else universities
IsArchived(t) == t < ARCHIVE_TIME

\* one iteration of `for row in reader`
LoadRow ==
    /\ pc = "load"
    /\ Len(rows) < MaxRows
    /\ \E row \in RowInputs(Len(rows) + 1) :
        /\ rows' = Append(rows, row)
        /\ IF IsArchived(row.time)
           THEN /\ universities_archived' =
                       LoadToUniversities(universities_archived, row)
                /\ UNCHANGED universities
           ELSE /\ universities' = LoadToUniversities(universities, row)
                /\ UNCHANGED universities_archived
    /\ UNCHANGED <<pc, cur, inputVars, loopVars, log, slugVars, writeVars>>

\* the reader is exhausted: process_universities(universities, colleges) starts
EndOfRows ==
    /\ pc = "load"
    /\ pc' = "alias"
    /\ cur' = "active"
    /\ li' = 1
    /\ UNCHANGED <<inputVars, rows, registryVars, ai, primary, log, slugVars,
                   writeVars>>

----------------------------------------------------------------------------
(* process_universities(universities, colleges), run on the active and then *)
(* on the archived registry                                                 *)

None == <<>>

\* the registry process_universities / write_markdown_for_universities was
\* called with
Reg == IF cur = "active" THEN universities ELSE universities_archived

SetReg(new) ==
    IF cur = "active"
    THEN universities' = new /\ UNCHANGED universities_archived
    ELSE universities_archived' = new /\ UNCHANGED universities

\* name, *aliases = line.rstrip('\n').split(sep)
LineName(line) == Head(line)
LineAliases(line) == Tail(line)

\* a faulty variant of AliasPrimaryMissing: the name is looked up by index,
\* which creates it in a defaultdict
AliasPrimaryMissingCreates ==
    /\ pc = "alias"
    /\ li <= Len(aliasFile)
    /\ LineName(aliasFile[li]) \notin Keys(Reg)
    /\ log' = Append(log, [kind |-> "alias primary missing", part |-> cur,
                           name |-> LineName(aliasFile[li])])
    /\ SetReg(GetOrCreate(Reg, LineName(aliasFile[li])))
    /\ li' = li + 1
    /\ UNCHANGED <<pc, cur, inputVars, rows, ai, primary, slugVars, writeVars>>

\* primary = universities.get(name) is None: warn and continue
AliasPrimaryMissing ==
    /\ pc = "alias"
    /\ li <= Len(aliasFile)
    /\ LineName(aliasFile[li]) \notin Keys(Reg)
    /\ log' = Append(log, [kind |-> "alias primary missing", part |-> cur,
                           name |-> LineName(aliasFile[li])])
    /\ li' = li + 1
    /\ UNCHANGED <<pc, cur, inputVars, rows, registryVars, ai, primary,
                   slugVars, writeVars>>

\* primary = universities.get(name) is an aggregate: enter `for alias in aliases`
AliasPrimaryFound ==
    /\ pc = "alias"
    /\ li <= Len(aliasFile)
    /\ LineName(aliasFile[li]) \in Keys(Reg)
    /\ primary' = LineName(aliasFile[li])
    /\ ai' = 1
    /\ pc' = "aliases"
    /\ UNCHANGED <<cur, inputVars, rows, registryVars, li, log, slugVars,
                   writeVars>>

\* a faulty variant of MergeAlias: the alias key is not removed
MergeAliasKeepKey(reg, prim, alias) ==
    Store(reg, prim, CombineFrom(reg.heap[prim], reg.heap[alias]))

\* primary.combine_from(universities[alias]); del universities[alias]
MergeAlias(reg, prim, alias) ==
    DelKey(Store(reg, prim, CombineFrom(reg.heap[prim], reg.heap[alias])),
           alias)

\* one iteration of `for alias in aliases` with the alias in the registry
AliasMerge ==
    /\ pc = "aliases"
    /\ ai <= Len(LineAliases(aliasFile[li]))
    /\ LineAliases(aliasFile[li])[ai] \in Keys(Reg)
    /\ SetReg(MergeAlias(Reg, primary, LineAliases(aliasFile[li])[ai]))
    /\ ai' = ai + 1
    /\ UNCHANGED <<pc, cur, inputVars, rows, li, primary, log, slugVars,
                   writeVars>>

\* a faulty variant of AliasAbsent: the alias is looked up by index before
\* the membership test, which creates it in a defaultdict
AliasAbsentCreates ==
    /\ pc = "aliases"
    /\ ai <= Len(LineAliases(aliasFile[li]))
    /\ LineAliases(aliasFile[li])[ai] \notin Keys(Reg)
    /\ SetReg(GetOrCreate(Reg, LineAliases(aliasFile[li])[ai]))
    /\ ai' = ai + 1
    /\ UNCHANGED <<pc, cur, inputVars, rows, li, primary, log, slugVars,
                   writeVars>>

\* one iteration of `for alias in aliases` with the alias not in the registry
AliasAbsent ==
    /\ pc = "aliases"
    /\ ai <= Len(LineAliases(aliasFile[li]))
    /\ LineAliases(aliasFile[li])[ai] \notin Keys(Reg)
    /\ ai' = ai + 1
    /\ UNCHANGED <<pc, cur, inputVars, rows, registryVars, li, primary, log,
                   slugVars, writeVars>>

\* the aliases of the line are exhausted: next line
AliasLineEnd ==
    /\ pc = "aliases"
    /\ ai > Len(LineAliases(aliasFile[li]))
    /\ pc' = "alias"
    /\ li' = li + 1
    /\ ai' = 0
    /\ primary' = None
    /\ UNCHANGED <<cur, inputVars, rows, registryVars, log, slugVars, writeVars>>

\* alias.txt is exhausted: the blacklist loop starts
AliasEnd ==
    /\ pc = "alias"
    /\ li > Len(aliasFile)
    /\ pc' = "blacklist"
    /\ li' = 1
    /\ UNCHANGED <<cur, inputVars, rows, registryVars, ai, primary, log,
                   slugVars, writeVars>>

\* a faulty variant of Pop: a missing name is looked up by index, which
\* creates it in a defaultdict
PopCreates(reg, name) ==
    IF name \in Keys(reg) THEN DelKey(reg, name) ELSE GetOrCreate(reg, name)

\* universities.pop(name, None)
Pop(reg, name) ==
    IF name \in Keys(reg) THEN DelKey(reg, name) ELSE reg

\* one iteration of the blacklist loop
BlacklistLine ==
    /\ pc = "blacklist"
    /\ li <= Len(blacklistFile)
    /\ SetReg(Pop(Reg, blacklistFile[li]))
    /\ li' = li + 1
    /\ UNCHANGED <<pc, cur, inputVars, rows, ai, primary, log, slugVars,
                   writeVars>>

\* blacklist.txt is exhausted: the anomaly scan starts
BlacklistEnd ==
    /\ pc = "blacklist"
    /\ li > Len(blacklistFile)
    /\ pc' = "scan"
    /\ li' = 1
    /\ UNCHANGED <<cur, inputVars, rows, registryVars, ai, primary, log,
                   slugVars, writeVars>>

\* NORMAL_NAME_MATCHER = re.compile(r'大学|学院|学校')
NORMAL_NAME_MATCHER == {<<"DA", "XUE">>, <<"XUE", "YUAN">>, <<"XUE", "XIAO">>}

\* a faulty variant of IsAnomalous: nothing is flagged
IsAnomalousNever(name, whitelist) == FALSE

\* NORMAL_NAME_MATCHER.search(name) is None and name not in whitelist
IsAnomalous(name, whitelist) ==
    /\ \A marker \in NORMAL_NAME_MATCHER : ~Contains(name, marker)
    /\ name \notin whitelist

\* ','.join(f'A{_.answer_id}' for _ in universities[name].credits)
CreditIds(uni) == [i \in 1..Len(uni.credits) |-> uni.credits[i].answer_id]

\* universities[name] on a key of the registry: nothing is created
ScanAccess(reg, name) == GetOrCreate(reg, name)

\* one iteration of `for name in list(universities.keys())`
ScanName ==
    /\ pc = "scan"
    /\ li <= Len(Reg.keys)
    /\ LET name == Reg.keys[li]
       IN  IF IsAnomalous(name, Range(whitelistFile))
           THEN /\ log' = Append(log, [kind |-> "maybe invalid", part |-> cur,
                                       name |-> name,
                                       ids |-> CreditIds(Reg.heap[name])])
                /\ SetReg(ScanAccess(Reg, name))
           ELSE UNCHANGED <<log, registryVars>>
    /\ li' = li + 1
    /\ UNCHANGED <<pc, cur, inputVars, rows, ai, primary, slugVars, writeVars>>

\* the scan is over: process_universities returns; the archived registry is
\* processed next, and then write_markdown_for_universities is called on the
\* active registry with a new FilenameMap()
ScanEnd ==
    /\ pc = "scan"
    /\ li > Len(Reg.keys)
    /\ li' = 1
    /\ IF cur = "active"
       THEN /\ cur' = "archived"
            /\ pc' = "alias"
       ELSE /\ cur' = "active"
            /\ pc' = "tasks"
    /\ UNCHANGED <<inputVars, rows, registryVars, ai, primary, log, slugVars,
                   writeVars>>

----------------------------------------------------------------------------
(* Paths (pathlib): a path is a sequence of segments, each a text *)

RECURSIVE SplitAt(_, _)
\* text.split(sep) for a one-character separator
SplitAt(text, sep) ==
    IF \A i \in 1..Len(text) : text[i] # sep THEN <<text>>
    ELSE LET k == CHOOSE i \in 1..Len(text) :
                      text[i] = sep /\ \A j \in 1..(i - 1) : text[j] # sep
         IN  <<SubSeq(text, 1, k - 1)>> \o SplitAt(SubSeq(text, k + 1, Len(text)), sep)

\* the segments pathlib parses from a relative text: split at the
\* separator, empty and '.' segments dropped
ParseSegments(text) ==
    SelectSeq(SplitAt(text, "/"), LAMBDA seg : seg # <<>> /\ seg # <<".">>)

\* path / text, for a text that does not start with the separator
Join(path, text) == path \o ParseSegments(text)

\* path.parent
Parent(path) == SubSeq(path, 1, Len(path) - 1)

\* path and all its ancestors
Ancestors(path) == {SubSeq(path, 1, k) : k \in 1..Len(path)}

\* name.rfind('.'), 0 when there is none (positions counted from 1)
RFindDot(name) ==
    IF \A i \in 1..Len(name) : name[i] # "." THEN 0
    ELSE CHOOSE i \in 1..Len(name) :
             name[i] = "." /\ \A j \in (i + 1)..Len(name) : name[j] # "."

\* path.suffix of the final segment
Suffix(name) ==
    LET i == RFindDot(name)
    IN  IF 1 < i /\ i < Len(name) THEN SubSeq(name, i, Len(name)) ELSE <<>>

\* path.stem
Stem(path) ==
    LET name == path[Len(path)]
        i == RFindDot(name)
    IN  IF 1 < i /\ i < Len(name) THEN SubSeq(name, 1, i - 1) ELSE name

\* path.with_stem(stem)
WithStem(path, stem) ==
    Parent(path) \o <<stem \o Suffix(path[Len(path)])>>

\* SITE_DIR / 'content' / 'docs'
DocsDir == <<<<"SITE_DIR">>, <<"content">>, <<"docs">>>>

\* generate_markdown_path(province, university_name, archived)
generate_markdown_path(province, university_name, archived) ==
    LET base == IF archived THEN DocsDir \o <<<<"archived">>>> ELSE DocsDir
    IN  Join(Join(Join(base, <<"universities">>), province),
             university_name \o <<".", "m", "d">>)

\* illegal_pattern = r'[\\/:*?"<>|\0]'
ILLEGAL_PATTERN == {"\\", "/", ":", "*", "?", "\"", "<", ">", "|", "NUL"}

\* sanitize_filename(filename): <<cleaned, cleaned != filename>>
sanitize_filename(filename) ==
    LET cleaned == ReplaceChars(filename, ILLEGAL_PATTERN, "_")
    IN  <<cleaned, cleaned # filename>>

OtherProvince == <<"OTHER">>

RECURSIVE FindIn(_, _, _)
FindIn(name, table, i) ==
    IF i > Len(table) THEN OtherProvince
    ELSE IF Contains(name, table[i][1]) THEN table[i][2]
    ELSE FindIn(name, table, i + 1)

\* find_province(name, colleges): the province of the first key found in name
find_province(name, table) == FindIn(name, table, 1)

\* the target of the task of `name`: the path, sanitized when its stem holds
\* an illegal character
RawTarget(name, table, archived) ==
    generate_markdown_path(find_province(name, table), name, archived)

TargetOf(name, table, archived) ==
    LET target == RawTarget(name, table, archived)
        clean == sanitize_filename(Stem(target))
    IN  IF clean[2] THEN WithStem(target, clean[1]) ELSE target

\* is_illegal of the task of `name`
IsIllegal(name, table, archived) ==
    sanitize_filename(Stem(RawTarget(name, table, archived)))[2]

\* render_university_markdown(name, uni, slug, archived), kept as its inputs
Render(name, uni, slug, archived) ==
    [title |-> name, archived |-> archived, slug |-> slug, uni |-> uni]

----------------------------------------------------------------------------
(* write_markdown_for_universities(universities, FilenameMap(), colleges,  *)
(* archived), run on the active and then on the archived registry          *)

Archived == cur = "archived"

\* one iteration of `for name, uni in universities.items()`
BuildTask ==
    /\ pc = "tasks"
    /\ li <= Len(Reg.keys)
    /\ LET name == Reg.keys[li]
           slug == SlugOf(mapping, used, name)
       IN  /\ mapping' = MappingAfter(mapping, used, name)
           /\ used' = UsedAfter(mapping, used, name)
           /\ lookups' = Append(lookups, <<name, slug>>)
           /\ log' = IF IsIllegal(name, colleges, Archived)
                     THEN Append(log, [kind |-> "illegal filename",
                                       part |-> cur, name |-> name,
                                       target |-> RawTarget(name, colleges, Archived)])
                     ELSE log
           /\ tasks' = Append(tasks, [name |-> name, slug |-> slug,
                                      target |-> TargetOf(name, colleges, Archived)])
    /\ li' = li + 1
    /\ UNCHANGED <<pc, cur, inputVars, rows, registryVars, ai, primary,
                   dirs, files, futures, collected, completed, raised>>

\* {target.parent for _, _, _, target in tasks}
TaskParents(ts) == {Parent(ts[i].target) : i \in 1..Len(ts)}

IndexFile(parent) == parent \o <<<<"_", "i", "n", "d", "e", "x", ".", "m", "d">>>>

\* a faulty variant of MkDirs: no directory is created
MkDirsNone(ds, parents) == ds

\* parent.mkdir(parents=True, exist_ok=True) for every parent
MkDirs(ds, parents) == ds \cup UNION {Ancestors(p) : p \in parents}

\* (parent / '_index.md').touch() for every parent: created empty unless it exists
TouchIndexes(fs, parents) ==
    [f \in DOMAIN fs \cup {IndexFile(p) : p \in parents} |->
        IF f \in DOMAIN fs THEN fs[f] ELSE "empty"]

\* the task list is complete: the parent directories are prepared
MakeDirs ==
    /\ pc = "tasks"
    /\ li > Len(Reg.keys)
    /\ dirs' = MkDirs(dirs, TaskParents(tasks))
    /\ files' = TouchIndexes(files, TaskParents(tasks))
    /\ pc' = "submit"
    /\ UNCHANGED <<cur, inputVars, rows, registryVars, loopVars, log, slugVars,
                   tasks, futures, collected, completed, raised>>

\* max_workers = min(32, max(1, (os.cpu_count() or 1) * 4))
MaxWorkers ==
    LET n == CpuCount * 4
        m == IF n > 1 THEN n ELSE 1
    IN  IF m < 32 THEN m ELSE 32

\* futures = [executor.submit(...) for ... in tasks]; completed = 0
Submit ==
    /\ pc = "submit"
    /\ futures' = [i \in 1..Len(tasks) |-> "queued"]
    /\ completed' = 0
    /\ collected' = {}
    /\ pc' = "collect"
    /\ UNCHANGED <<cur, inputVars, rows, registryVars, loopVars, log, slugVars,
                   tasks, dirs, files, raised>>

Running == {i \in 1..Len(futures) : futures[i] = "running"}
Finished == {i \in 1..Len(futures) : futures[i] \in {"done", "failed"}}

\* a faulty variant of WorkerStart: the thread of a task that failed is lost
\* to the pool
WorkerStartThreadLost(i) ==
    /\ i \in 1..Len(futures)
    /\ futures[i] = "queued"
    /\ \A j \in 1..(i - 1) : futures[j] # "queued"
    /\ Cardinality({j \in 1..Len(futures) : futures[j] \in {"running", "failed"}})
          < MaxWorkers
    /\ futures' = [futures EXCEPT ![i] = "running"]
    /\ UNCHANGED <<pc, cur, inputVars, rows, registryVars, loopVars, log,
                   slugVars, tasks, dirs, files, collected, completed, raised>>

\* a pool thread takes the oldest queued work item
WorkerStart(i) ==
    /\ i \in 1..Len(futures)
    /\ futures[i] = "queued"
    /\ \A j \in 1..(i - 1) : futures[j] # "queued"
    /\ Cardinality(Running) < MaxWorkers
    /\ futures' = [futures EXCEPT ![i] = "running"]
    /\ UNCHANGED <<pc, cur, inputVars, rows, registryVars, loopVars, log,
                   slugVars, tasks, dirs, files, collected, completed, raised>>

\* target.write_text(...): the file holds the text afterwards
WriteText(fs, target, text) ==
    [f \in DOMAIN fs \cup {target} |-> IF f = target THEN text ELSE fs[f]]

\* a faulty variant of WorkerWrite: the worker counts its own completion
WorkerWriteCounts(i) ==
    /\ i \in 1..Len(futures)
    /\ futures[i] = "running"
    /\ Parent(tasks[i].target) \in dirs
    /\ files' = WriteText(files, tasks[i].target,
                          Render(tasks[i].name, Reg.heap[tasks[i].name],
                                 tasks[i].slug, Archived))
    /\ futures' = [futures EXCEPT ![i] = "done"]
    /\ completed' = completed + 1
    /\ UNCHANGED <<pc, cur, inputVars, rows, registryVars, loopVars, log,
                   slugVars, tasks, dirs, collected, raised>>

\* write_university_markdown(name, uni, slug, target, archived) returns
WorkerWrite(i) ==
    /\ i \in 1..Len(futures)
    /\ futures[i] = "running"
    /\ Parent(tasks[i].target) \in dirs
    /\ files' = WriteText(files, tasks[i].target,
                          Render(tasks[i].name, Reg.heap[tasks[i].name],
                                 tasks[i].slug, Archived))
    /\ futures' = [futures EXCEPT ![i] = "done"]
    /\ UNCHANGED <<pc, cur, inputVars, rows, registryVars, loopVars, log,
                   slugVars, tasks, dirs, collected, completed, raised>>

\* write_university_markdown raises (the directory is missing, or the file
\* system refuses the write): the future holds the exception
WorkerFail(i) ==
    /\ i \in 1..Len(futures)
    /\ futures[i] = "running"
    /\ futures' = [futures EXCEPT ![i] = "failed"]
    /\ UNCHANGED <<pc, cur, inputVars, rows, registryVars, loopVars, log,
                   slugVars, tasks, dirs, files, collected, completed, raised>>

\* as_completed yields a finished future that returned: completed += 1
CollectResult(i) ==
    /\ pc = "collect"
    /\ i \in Finished \ collected
    /\ futures[i] = "done"
    /\ collected' = collected \cup {i}
    /\ completed' = completed + 1
    /\ UNCHANGED <<pc, cur, inputVars, rows, registryVars, loopVars, log,
                   slugVars, tasks, dirs, files, futures, raised>>

\* a faulty variant of CollectFailure: the failure is dropped and the loop
\* goes on
CollectFailureSwallowed(i) ==
    /\ pc = "collect"
    /\ i \in Finished \ collected
    /\ futures[i] = "failed"
    /\ collected' = collected \cup {i}
    /\ UNCHANGED <<pc, cur, inputVars, rows, registryVars, loopVars, log,
                   slugVars, tasks, dirs, files, futures, completed, raised>>

\* as_completed yields a finished future that failed: future.result() raises,
\* the exception leaves the loop and the with block waits for the pool
CollectFailure(i) ==
    /\ pc = "collect"
    /\ i \in Finished \ collected
    /\ futures[i] = "failed"
    /\ collected' = collected \cup {i}
    /\ raised' = i
    /\ pc' = "shutdown"
    /\ UNCHANGED <<cur, inputVars, rows, registryVars, loopVars, log,
                   slugVars, tasks, dirs, files, futures, completed>>

\* executor.__exit__ after the exception: shutdown(wait=True) returns when
\* every submitted task has run; the exception then ends the program
Abort ==
    /\ pc = "shutdown"
    /\ Finished = 1..Len(futures)
    /\ pc' = "aborted"
    /\ UNCHANGED <<cur, inputVars, rows, registryVars, loopVars, log,
                   slugVars, writeVars>>

\* as_completed is exhausted: the with block ends and the function returns
Return ==
    /\ pc = "collect"
    /\ collected = 1..Len(futures)
    /\ pc' = "returned"
    /\ UNCHANGED <<cur, inputVars, rows, registryVars, loopVars, log,
                   slugVars, writeVars>>

\* the call for the archived registry, with a new FilenameMap()
NextCall ==
    /\ pc = "returned"
    /\ cur = "active"
    /\ cur' = "archived"
    /\ pc' = "tasks"
    /\ li' = 1
    /\ mapping' = EmptyMap
    /\ used' = {}
    /\ lookups' = <<>>
    /\ tasks' = <<>>
    /\ futures' = <<>>
    /\ collected' = {}
    /\ completed' = 0
    /\ UNCHANGED <<inputVars, rows, registryVars, ai, primary, log, dirs,
                   files, raised>>

\* the program ends
Finish ==
    /\ pc = "returned"
    /\ cur = "archived"
    /\ pc' = "done"
    /\ UNCHANGED <<cur, inputVars, rows, registryVars, loopVars, log,
                   slugVars, writeVars>>

----------------------------------------------------------------------------
(* The program: rows are loaded, both registries are processed, both are   *)
(* written                                                                  *)

\* alias.txt: no line; a primary with two aliases; an alias that is the
\* primary of an earlier line; a primary listed among its own aliases; a
\* name listed as alias on two lines; an alias written as respondents type it
AliasTables ==
    { <<>>,
      <<<<NameP, NameA, NameB>>>>,
      <<<<NameA, NameB>>, <<NameP, NameA>>>>,
      <<<<NameP, NameP, NameA>>>>,
      <<<<NameP, NameB>>, <<NameA, NameB>>>>,
      <<<<NameP, <<"X", "DA", "XUE", "(", "B", ")">>>>>> }

\* blacklist.txt: no line; a name no row has, then a name rows may have
Blacklists == { <<>>, <<NameY, NameB>> }

\* whitelist.txt
Whitelists == { <<>>, <<NameB>> }

\* colleges.csv as load_colleges returns it
CollegeTables == { <<<<NameP, <<"P1">>>>>> }

\* ensure_dirs()
EnsureDirs ==
    Ancestors(DocsDir \o <<<<"universities">>>>)
        \cup Ancestors(DocsDir \o <<<<"archived">>, <<"universities">>>>)
        \cup Ancestors(DocsDir \o <<<<"choose-a-college">>>>)

\* the state before the first row is read, the input files apart
InitState ==
    /\ cur = "active"
    /\ rows = <<>>
    /\ universities = EmptyRegistry
    /\ universities_archived = EmptyRegistry
    /\ li = 0
    /\ ai = 0
    /\ primary = None
    /\ log = <<>>
    /\ mapping = EmptyMap
    /\ used = {}
    /\ lookups = <<>>
    /\ tasks = <<>>
    /\ dirs = EnsureDirs
    /\ files = EmptyMap
    /\ futures = <<>>
    /\ collected = {}
    /\ completed = 0
    /\ raised = 0

Init ==
    /\ pc = "load"
    /\ aliasFile \in AliasTables
    /\ blacklistFile \in Blacklists
    /\ whitelistFile \in Whitelists
    /\ colleges \in CollegeTables
    /\ InitState

Load == LoadRow \/ EndOfRows

Process ==
    \/ AliasPrimaryMissing
    \/ AliasPrimaryFound
    \/ AliasMerge
    \/ AliasAbsent
    \/ AliasLineEnd
    \/ AliasEnd
    \/ BlacklistLine
    \/ BlacklistEnd
    \/ ScanName
    \/ ScanEnd

Write ==
    \/ BuildTask
    \/ MakeDirs
    \/ Submit
    \/ \E i \in 1..Len(futures) : WorkerStart(i)
    \/ \E i \in 1..Len(futures) : WorkerWrite(i)
    \/ \E i \in 1..Len(futures) : WorkerFail(i)
    \/ \E i \in 1..Len(futures) : CollectResult(i)
    \/ \E i \in 1..Len(futures) : CollectFailure(i)
    \/ Abort
    \/ Return
    \/ NextCall
    \/ Finish

Next == Load \/ Process \/ Write

Spec == Init /\ [][Next]_vars

----------------------------------------------------------------------------
(* FilenameMap alone: any sequence of lookups on one instance *)

\* the names looked up: they share bases ("X", "x" and "X/" all give "x"),
\* and "x-2" and "x_2" give the base "x-2", the first candidate tried after "x"
SlugNames ==
    { <<"X">>, <<"x">>, <<"X", "/">>, <<"x", "-", "2">>, <<"x", "_", "2">>,
      <<"DA">> }

\* filename_map[name]
GetItem(name) ==
    /\ Len(lookups) < MaxLookups
    /\ mapping' = MappingAfter(mapping, used, name)
    /\ used' = UsedAfter(mapping, used, name)
    /\ lookups' = Append(lookups, <<name, SlugOf(mapping, used, name)>>)
    /\ UNCHANGED <<pc, cur, inputVars, rows, registryVars, loopVars, log,
                   writeVars>>

InitSlug ==
    /\ pc = "lookups"
    /\ aliasFile = <<>>
    /\ blacklistFile = <<>>
    /\ whitelistFile = <<>>
    /\ colleges = <<>>
    /\ InitState

NextSlug == \E name \in SlugNames : GetItem(name)

SpecSlug == InitSlug /\ [][NextSlug]_vars

----------------------------------------------------------------------------
(* write_markdown_for_universities alone, on the registries that rows with *)
(* distinct names leave when alias.txt and blacklist.txt are empty and     *)
(* every name is whitelisted                                               *)

\* "A|B", "A_B", "A/B", "AB" and "A?"
WriteNames ==
    { <<"A", "|", "B">>, <<"A", "_", "B">>, <<"A", "/", "B">>, <<"A", "B">>,
      <<"A", "?">> }

\* the sequences of at most n distinct names
KeyLists(names, n) ==
    UNION { { ks \in [1..k -> names] : \A i, j \in 1..k : i # j => ks[i] # ks[j] } :
              k \in 0..n }

RECURSIVE LoadAll(_, _, _)
\* the registry after load_to_universities on rows[i..]
LoadAll(reg, rs, i) ==
    IF i > Len(rs) THEN reg
    ELSE LoadAll(LoadToUniversities(reg, rs[i]), rs, i + 1)

\* whitelist.txt names every name of the write specification
WriteWhitelist ==
    << <<"A", "|", "B">>, <<"A", "_", "B">>, <<"A", "/", "B">>, <<"A", "B">>,
       <<"A", "?">> >>

WriteCollegeTables == { <<>>, <<<<<<"A", "B">>, <<"P1">>>>>> }

InitWrite ==
    /\ pc = "tasks"
    /\ aliasFile = <<>>
    /\ blacklistFile = <<>>
    /\ whitelistFile = WriteWhitelist
    /\ colleges \in WriteCollegeTables
    /\ cur = "active"
    /\ \E ks \in KeyLists(WriteNames, MaxEntities), t \in {ARCHIVE_TIME - 1, ARCHIVE_TIME} :
          /\ rows = [i \in 1..Len(ks) |-> Row(i, ks[i], t, 2, <<>>)]
          /\ universities = LoadAll(EmptyRegistry, rows, 1)
          /\ universities_archived = EmptyRegistry
    /\ li = 1
    /\ ai = 0
    /\ primary = None
    /\ log = <<>>
    /\ mapping = EmptyMap
    /\ used = {}
    /\ lookups = <<>>
    /\ tasks = <<>>
    /\ dirs = EnsureDirs
    /\ files = EmptyMap
    /\ futures = <<>>
    /\ collected = {}
    /\ completed = 0
    /\ raised = 0

SpecWrite == InitWrite /\ [][Write]_vars

----------------------------------------------------------------------------
(* Row loading alone: rows of every shape a respondent can leave          *)

\* the rows tried by the loading specification: a name typed plainly, the
\* same name typed in traditional characters with a space before and a '#'
\* after, and a second name; before the cutoff, at it and after it; the
\* free-text supplement left empty or filled in; the email shown
LoadInputs(aid) ==
    { Row(aid, raw, t, 1, additional) :
        raw \in {NameP, <<" ", "X", "DA", "XUE_T", "#">>, NameB},
        t \in {ARCHIVE_TIME - 1, ARCHIVE_TIME, ARCHIVE_TIME + 1},
        additional \in {<<>>, <<"s">>} }

\* one iteration of `for row in reader`, on any row
LoadAnyRow ==
    /\ pc = "load"
    /\ Len(rows) < MaxRows
    /\ \E row \in LoadInputs(Len(rows) + 1) :
        /\ rows' = Append(rows, row)
        /\ IF IsArchived(row.time)
           THEN /\ universities_archived' =
                       LoadToUniversities(universities_archived, row)
                /\ UNCHANGED universities
           ELSE /\ universities' = LoadToUniversities(universities, row)
                /\ UNCHANGED universities_archived
    /\ UNCHANGED <<pc, cur, inputVars, loopVars, log, slugVars, writeVars>>

InitLoad ==
    /\ pc = "load"
    /\ aliasFile = <<>>
    /\ blacklistFile = <<>>
    /\ whitelistFile = <<>>
    /\ colleges = <<>>
    /\ InitState

SpecLoad == InitLoad /\ [][LoadAnyRow]_vars

----------------------------------------------------------------------------
(* One call of write_markdown_for_universities under fair scheduling: the  *)
(* operating system lets every pool thread and the coordinator run, and    *)
(* every write_text call ends, by returning or by raising                   *)

\* the name of the k-th entity: "E" followed by k
FairName(k) == <<"E">> \o Decimal(k)

InitFair ==
    /\ pc = "tasks"
    /\ aliasFile = <<>>
    /\ blacklistFile = <<>>
    /\ whitelistFile = <<>>
    /\ colleges = <<>>
    /\ cur = "active"
    /\ \E n \in 0..MaxTasks :
          /\ rows = [i \in 1..n |-> Row(i, FairName(i), ARCHIVE_TIME, 2, <<>>)]
          /\ universities = LoadAll(EmptyRegistry, rows, 1)
          /\ universities_archived = EmptyRegistry
    /\ li = 1
    /\ ai = 0
    /\ primary = None
    /\ log = <<>>
    /\ mapping = EmptyMap
    /\ used = {}
    /\ lookups = <<>>
    /\ tasks = <<>>
    /\ dirs = EnsureDirs
    /\ files = EmptyMap
    /\ futures = <<>>
    /\ collected = {}
    /\ completed = 0
    /\ raised = 0

NextFair ==
    \/ BuildTask
    \/ MakeDirs
    \/ Submit
    \/ \E i \in 1..Len(futures) : WorkerStart(i)
    \/ \E i \in 1..Len(futures) : WorkerWrite(i)
    \/ \E i \in 1..Len(futures) : WorkerFail(i)
    \/ \E i \in 1..Len(futures) : CollectResult(i)
    \/ \E i \in 1..Len(futures) : CollectFailure(i)
    \/ Abort
    \/ Return

\* the coordinator runs its next statement
CoordinatorFair ==
    /\ WF_vars(BuildTask)
    /\ WF_vars(MakeDirs)
    /\ WF_vars(Submit)
    /\ WF_vars(\E i \in 1..Len(futures) : CollectResult(i) \/ CollectFailure(i))
    /\ WF_vars(Abort)
    /\ WF_vars(Return)

\* a free pool thread takes the next work item, and a write that has begun ends
WorkersFair ==
    \A i \in 1..MaxTasks :
        /\ WF_vars(WorkerStart(i))
        /\ WF_vars(WorkerWrite(i) \/ WorkerFail(i))

SpecFair == InitFair /\ [][NextFair]_vars /\ CoordinatorFair /\ WorkersFair

----------------------------------------------------------------------------
(* Claims about FilenameMap, checked under SpecSlug *)

LookupName(i) == lookups[i][1]
LookupSlug(i) == lookups[i][2]

\* C1: over any sequence of lookups on one FilenameMap, two lookups return
\* the same slug exactly when they are lookups of the same name: distinct
\* names never share a slug, and a name looked up again gets the slug it got
\* the first time, whatever was assigned in between.
C1_SlugInjectiveAndStable ==
    \A i, j \in 1..Len(lookups) :
        (LookupName(i) = LookupName(j)) <=> (LookupSlug(i) = LookupSlug(j))

\* a name looked up, then a different name with the same base, then the
\* first name again
C1_Witness ==
    \E i, j, k \in 1..Len(lookups) :
        /\ i < j /\ j < k
        /\ LookupName(i) = LookupName(k)
        /\ LookupName(j) # LookupName(i)
        /\ SlugBase(LookupName(j)) = SlugBase(LookupName(i))

\* C10: mapping and used are consistent: every slug returned by a lookup is
\* in used, and every name of mapping maps to a slug in used.
C10_MappingUsedConsistent ==
    /\ \A i \in 1..Len(lookups) : LookupSlug(i) \in used
    /\ \A n \in DOMAIN mapping : mapping[n] \in used

\* three names are assigned, one of them a slug with a counter
C10_Witness ==
    /\ Cardinality(DOMAIN mapping) >= 3
    /\ \E n \in DOMAIN mapping : mapping[n] # SlugBase(n)
    /\ Cardinality(used) >= 3

----------------------------------------------------------------------------
(* Claims about process_universities, checked under Spec *)

ProcessPcs == {"alias", "aliases", "blacklist", "scan"}
WritePcs == {"tasks", "submit", "collect", "shutdown", "aborted", "returned", "done"}

\* the registry of the running call after the step
RegAfter == IF cur = "active" THEN universities' ELSE universities_archived'

\* the registry the running call does not work on is left alone by the step
OtherRegUnchanged ==
    IF cur = "active"
    THEN universities_archived' = universities_archived
    ELSE universities' = universities

\* an iteration of `for alias in aliases` is about to run
InAliasIteration == pc = "aliases" /\ ai <= Len(LineAliases(aliasFile[li]))
CurAlias == LineAliases(aliasFile[li])[ai]

\* after holds what a held, followed by what b held, list by list
Appended(after, a, b) ==
    /\ Len(after.answers) = Len(a.answers)
    /\ \A i \in 1..Len(a.answers) : after.answers[i] = a.answers[i] \o b.answers[i]
    /\ after.additional_answers = a.additional_answers \o b.additional_answers
    /\ after.credits = a.credits \o b.credits

\* the rows of the running partition whose normalised name is n, in row order
PartRows(n) ==
    SelectSeq(rows, LAMBDA r : NormalizeName(r.name) = n
                                 /\ ((r.time < ARCHIVE_TIME) <=> (cur = "archived")))

RowCredits(rs) == [i \in 1..Len(rs) |-> IndexedContent(rs[i].aid, CreditText(rs[i]))]
RowBin(rs, q) == [i \in 1..Len(rs) |-> IndexedContent(rs[i].aid, rs[i].answers[q])]

\* alias.txt is one line of pairwise distinct names
SimpleAliasFile ==
    /\ Len(aliasFile) = 1
    /\ \A i, j \in 1..Len(aliasFile[1]) : i # j => aliasFile[1][i] # aliasFile[1][j]

\* the alias loop of the running call has just ended
AtAliasEnd == pc = "blacklist" /\ li = 1

\* position of the record of row aid in a list of records, 0 if absent
PosOf(list, aid) ==
    IF \E i \in 1..Len(list) : list[i].answer_id = aid
    THEN CHOOSE i \in 1..Len(list) : list[i].answer_id = aid
    ELSE 0

\* C3 (as amended): for an alias line whose primary is a key, the loop over
\* its aliases is entered with the primary bound; every iteration handles the
\* next alias in declared order; an alias that is a key is appended to the
\* primary (after all the primary holds) and its key removed, nothing else
\* changes; an alias that is no key changes nothing.  For a one-line alias
\* file of distinct names the primary ends holding its own rows' records
\* followed by those of each alias in declared order, and no alias is a key.
C3_AliasMergeInOrder ==
    /\ [][ (pc = "alias" /\ li <= Len(aliasFile)
                /\ LineName(aliasFile[li]) \in Keys(Reg))
            => /\ pc' = "aliases"
               /\ primary' = LineName(aliasFile[li])
               /\ ai' = 1
               /\ li' = li
               /\ UNCHANGED registryVars ]_vars
    /\ [][ InAliasIteration
            => /\ ai' = ai + 1
               /\ li' = li
               /\ primary' = primary
               /\ pc' = "aliases"
               /\ OtherRegUnchanged
               /\ IF CurAlias \in Keys(Reg)
                  THEN /\ Appended(RegAfter.heap[primary], Reg.heap[primary],
                                   Reg.heap[CurAlias])
                       /\ RegAfter.keys = SelectSeq(Reg.keys, LAMBDA k : k # CurAlias)
                       /\ \A n \in DOMAIN Reg.heap \ {primary} :
                              RegAfter.heap[n] = Reg.heap[n]
                  ELSE RegAfter = Reg ]_vars
    /\ [](  (AtAliasEnd /\ SimpleAliasFile /\ PartRows(aliasFile[1][1]) # <<>>)
            => LET line == aliasFile[1]
                   uni == Reg.heap[line[1]]
               IN  /\ line[1] \in Keys(Reg)
                   /\ \A k \in 2..Len(line) : line[k] \notin Keys(Reg)
                   /\ uni.credits =
                        Concat([k \in 1..Len(line) |-> RowCredits(PartRows(line[k]))])
                   /\ \A q \in 1..QuestionCount :
                        uni.answers[q] =
                          Concat([k \in 1..Len(line) |-> RowBin(PartRows(line[k]), q)]) )

\* the primary and both aliases had rows in the partition, an alias's row first
C3_Witness ==
    /\ AtAliasEnd
    /\ aliasFile = <<<<NameP, NameA, NameB>>>>
    /\ Reg.keys = <<NameP>>
    /\ Len(Reg.heap[NameP].credits) = 3
    /\ Reg.heap[NameP].credits[1].answer_id # 1

\* C3 (as stated): two rows of a partition whose names are a primary and one
\* of its aliases end as one entity holding both rows' records in original
\* row order.
C3_OriginalRowOrder ==
    (AtAliasEnd /\ SimpleAliasFile)
    => \A i, j \in 1..Len(rows) :
        LET line == aliasFile[1]
            ni == NormalizeName(rows[i].name)
            nj == NormalizeName(rows[j].name)
        IN  ( /\ i < j
              /\ PartRows(ni) # <<>> /\ PartRows(nj) # <<>>
              /\ \/ ni = line[1] /\ nj \in Range(Tail(line))
                 \/ nj = line[1] /\ ni \in Range(Tail(line)) )
            => /\ line[1] \in Keys(Reg)
               /\ PosOf(Reg.heap[line[1]].credits, i) > 0
               /\ PosOf(Reg.heap[line[1]].credits, i)
                    < PosOf(Reg.heap[line[1]].credits, j)

\* C4: every University of either registry (every object ever created, a key
\* or not) has exactly len(QUESTIONNAIRE) answer bins, in every state: at
\* creation, after every add_answer and around every combine_from.
C4_BinCount ==
    \A reg \in {universities, universities_archived} :
        \A n \in DOMAIN reg.heap : Len(reg.heap[n].answers) = QuestionCount

\* an aggregate holds the records of rows of two different names after a
\* merge, every bin with two answers or more
C4_Witness ==
    /\ pc = "aliases"
    /\ \E i, j \in 1..Len(Reg.heap[primary].credits) :
          NormalizeName(rows[Reg.heap[primary].credits[i].answer_id].name)
            # NormalizeName(rows[Reg.heap[primary].credits[j].answer_id].name)
    /\ \A q \in 1..QuestionCount : Len(Reg.heap[primary].answers[q]) >= 2

C6_BlacklistRemoval ==
    /\ [][ (pc = "blacklist" /\ li <= Len(blacklistFile))
            => /\ pc' = "blacklist"
               /\ li' = li + 1
               /\ log' = log
               /\ OtherRegUnchanged
               /\ RegAfter.keys = SelectSeq(Reg.keys, LAMBDA k : k # blacklistFile[li])
               /\ \A k \in Keys(RegAfter) : RegAfter.heap[k] = Reg.heap[k]
               /\ blacklistFile[li] \notin Keys(Reg) => RegAfter = Reg ]_vars
    /\ [](pc = "scan" => Keys(Reg) \cap Range(blacklistFile) = {})

\* a blacklisted name that had a row has been removed, another key is left,
\* and the blacklist also held a name that was no key
C6_Witness ==
    /\ pc = "scan"
    /\ aliasFile = <<>>
    /\ blacklistFile = <<NameY, NameB>>
    /\ PartRows(NameB) # <<>>
    /\ NameB \notin Keys(Reg)
    /\ Keys(Reg) # {}

\* the number of [warn] maybe invalid lines printed for name n by the call
\* on partition part
InvalidWarnings(part, n) ==
    Cardinality({i \in 1..Len(log) :
                    /\ log[i].kind = "maybe invalid"
                    /\ log[i].part = part
                    /\ log[i].name = n})

PartReg(part) == IF part = "active" THEN universities ELSE universities_archived

\* the anomaly scan of the call on partition part is over
ScanDone(part) ==
    IF part = "active"
    THEN (cur = "archived" /\ pc \in ProcessPcs) \/ pc \in WritePcs
    ELSE pc \in WritePcs

\* the task list of the running call is complete
TasksBuilt == pc \in {"submit", "collect", "shutdown", "aborted", "returned", "done"}

\* C7: a step of the anomaly scan changes neither registry; once the scan of
\* a registry is over, each of its keys without an institution marker and
\* outside the whitelist has exactly one warning and every other key none;
\* and every key of the registry, flagged or not, has exactly one write task
\* once the task list is built.
C7_ScanOnlyReports ==
    /\ [][ (pc = "scan" /\ li <= Len(Reg.keys))
            => /\ UNCHANGED registryVars
               /\ pc' = "scan"
               /\ li' = li + 1 ]_vars
    /\ [](\A part \in {"active", "archived"} :
            ScanDone(part)
            => \A n \in Keys(PartReg(part)) :
                 InvalidWarnings(part, n) =
                   IF /\ ~Contains(n, <<"DA", "XUE">>)
                      /\ ~Contains(n, <<"XUE", "YUAN">>)
                      /\ ~Contains(n, <<"XUE", "XIAO">>)
                      /\ n \notin Range(whitelistFile)
                   THEN 1 ELSE 0)
    /\ [](TasksBuilt
            => \A n \in Keys(Reg) :
                 Cardinality({i \in 1..Len(tasks) : tasks[i].name = n}) = 1)

\* a flagged name is still a key and has a write task
C7_Witness ==
    /\ pc = "submit"
    /\ NameB \in Keys(Reg)
    /\ InvalidWarnings(cur, NameB) = 1
    /\ \E i \in 1..Len(tasks) : tasks[i].name = NameB

----------------------------------------------------------------------------
(* Claims about write_markdown_for_universities, checked under SpecWrite *)

\* the distinct targets of the task list
Targets == {tasks[i].target : i \in 1..Len(tasks)}

\* C2 (as stated): the tasks of a registry of N distinct names have pairwise
\* distinct targets, and a call that returns leaves N files, each holding the
\* rendering of its own entity.
C2_OneFilePerEntity ==
    /\ TasksBuilt
        => \A i, j \in 1..Len(tasks) : i # j => tasks[i].target # tasks[j].target
    /\ pc = "returned"
        => /\ Cardinality(Targets) = Len(Reg.keys)
           /\ \A i \in 1..Len(tasks) :
                /\ tasks[i].target \in DOMAIN files
                /\ files[tasks[i].target] =
                     Render(tasks[i].name, Reg.heap[tasks[i].name],
                            tasks[i].slug, Archived)

\* the final segment of a path
FileName(path) == path[Len(path)]

\* C8 (as stated): for an entity whose name contains "/", the output file is
\* named after the name with "/" replaced by "_", the illegal-filename
\* message is printed for it, and its slug is the one FilenameMap returned
\* for the name.
C8_SlashReplacedInFilename ==
    \A i \in 1..Len(tasks) :
        "/" \in Range(tasks[i].name)
        => /\ FileName(tasks[i].target) =
                ReplaceChars(tasks[i].name, {"/"}, "_") \o <<".", "m", "d">>
           /\ \E k \in 1..Len(log) :
                log[k].kind = "illegal filename" /\ log[k].name = tasks[i].name
           /\ <<tasks[i].name, tasks[i].slug>> \in Range(lookups)

\* C9: a call returns only when every task succeeded and was counted; when a
\* collected future failed, the coordinator leaves the loop at once with that
\* failure (the first failure collected, everything collected before it had
\* succeeded), collects and counts nothing more, and ends aborted, never
\* returned; the program is aborted only after every submitted task has run.
C9_FirstFailureAborts ==
    /\ [](pc \in {"returned", "done"}
            => /\ \A i \in 1..Len(futures) : futures[i] = "done"
               /\ completed = Len(tasks))
    /\ [](pc \in {"shutdown", "aborted"}
            => /\ raised \in collected
               /\ futures[raised] = "failed"
               /\ \A i \in collected \ {raised} : futures[i] = "done"
               /\ completed = Cardinality(collected) - 1)
    /\ [](pc = "aborted" => Finished = 1..Len(futures))
    /\ [][ (pc = "collect" /\ \E i \in collected' \ collected : futures[i] = "failed")
            => pc' = "shutdown" ]_vars
    /\ [][ (pc \in {"shutdown", "aborted"})
            => /\ pc' \in {"shutdown", "aborted"}
               /\ collected' = collected
               /\ completed' = completed
               /\ raised' = raised ]_vars

\* the run was aborted on a failure collected after one success, and a task
\* that was never collected has written its file
C9_Witness ==
    /\ pc = "aborted"
    /\ completed = 1
    /\ \E i \in 1..Len(futures) :
          /\ i \notin collected
          /\ futures[i] = "done"
          /\ tasks[i].target \in DOMAIN files

----------------------------------------------------------------------------
(* Claims about row loading, checked under SpecLoad *)

\* the row the step has just read
NewRow == rows'[Len(rows')]

\* the registry a row goes to, before and after the step that loads it
RowReg(row) == IF IsArchived(row.time) THEN universities_archived ELSE universities
RowRegAfter(row) == IF IsArchived(row.time) THEN universities_archived' ELSE universities'

\* the aggregate of name n in reg, a new one when n is no key
UniOf(reg, n) == IF n \in Keys(reg) THEN reg.heap[n] ELSE NewUniversity

\* the records add_additional_answer is tried with: empty and non-empty text
SupplementRecords == {IndexedContent(aid, text) : aid \in 1..MaxRows,
                                                  text \in {<<>>, <<"s">>, <<"s", "s">>}}

\* C11: add_additional_answer with a record whose text is empty leaves the
\* supplementary list unchanged; with a record whose text is non-empty it
\* appends exactly that one record at the end; in both cases nothing else of
\* the aggregate changes.  Checked on every aggregate row loading builds, and
\* on the supplementary list of the entity each loaded row goes to.
C11_AddAdditionalAnswer ==
    /\ [](\A reg \in {universities, universities_archived} :
            \A n \in DOMAIN reg.heap : \A rec \in SupplementRecords :
                LET uni == reg.heap[n]
                    after == AddAdditionalAnswer(uni, rec)
                IN  /\ after.answers = uni.answers
                    /\ after.credits = uni.credits
                    /\ after.additional_answers =
                         IF rec.content = <<>> THEN uni.additional_answers
                         ELSE uni.additional_answers \o <<rec>>)
    /\ [][ Len(rows') = Len(rows) + 1
            => LET n == NormalizeName(NewRow.name)
                   before == UniOf(RowReg(NewRow), n).additional_answers
                   after == RowRegAfter(NewRow).heap[n].additional_answers
               IN  after = IF NewRow.additional = <<>> THEN before
                           ELSE before \o <<IndexedContent(NewRow.aid, NewRow.additional)>>
          ]_vars

\* an entity got a row with a supplement, then a row without, then a row with
C11_Witness ==
    \E reg \in {universities, universities_archived} :
        \E n \in DOMAIN reg.heap :
            /\ Len(reg.heap[n].credits) = 3
            /\ Len(reg.heap[n].additional_answers) = 2
            /\ reg.heap[n].additional_answers[1].answer_id = 1
            /\ reg.heap[n].additional_answers[2].answer_id = 3

----------------------------------------------------------------------------
(* Claims about the fan-out of write_markdown_for_universities, checked     *)
(* under SpecWrite                                                          *)

\* the pool may be running tasks: from the submission to the end of the
\* with block
FanOut == pc \in {"collect", "shutdown"}

\* the tasks whose state the step changes
Stepped == {i \in 1..Len(futures) : futures'[i] # futures[i]}

\* C12: slug assignment, region resolution, path resolution and the creation
\* of every distinct parent directory with its _index.md are finished by the
\* coordinator before the first task is submitted: at the submission the
\* task list holds, for every key in order, the slug of the FilenameMap and
\* the resolved target, and every parent directory and placeholder exists;
\* from then on no step changes the FilenameMap, the task list or the
\* directories, a worker step changes nothing but its own future and its own
\* target file, and every task that writes does so into an existing directory.
C12_PreparedBeforeFanOut ==
    /\ [](pc \in {"submit", "collect", "shutdown"}
            => /\ Len(tasks) = Len(Reg.keys)
               /\ \A i \in 1..Len(tasks) :
                    /\ tasks[i].name = Reg.keys[i]
                    /\ tasks[i].name \in DOMAIN mapping
                    /\ tasks[i].slug = mapping[tasks[i].name]
                    /\ tasks[i].target =
                         TargetOf(tasks[i].name, colleges, Archived)
                    /\ Parent(tasks[i].target) \in dirs
                    /\ \A k \in 1..Len(Parent(tasks[i].target)) :
                         SubSeq(tasks[i].target, 1, k) \in dirs
                    /\ IndexFile(Parent(tasks[i].target)) \in DOMAIN files)
    /\ [](pc \in {"tasks", "submit"} => futures = <<>>)
    /\ [][ FanOut => UNCHANGED <<mapping, used, lookups, tasks, dirs>> ]_vars
    /\ [][ (FanOut /\ futures' # futures)
            => /\ Cardinality(Stepped) = 1
               /\ UNCHANGED <<pc, collected, completed, raised>>
               /\ \A f \in DOMAIN files : f \in DOMAIN files'
               /\ \A f \in DOMAIN files' :
                    (f \notin DOMAIN files \/ files'[f] # files[f])
                    => \E i \in Stepped :
                         /\ f = tasks[i].target
                         /\ futures'[i] = "done"
                         /\ Parent(f) \in dirs
                         /\ files'[f] = Render(tasks[i].name, Reg.heap[tasks[i].name],
                                               tasks[i].slug, Archived) ]_vars

\* two pages were written into two different directories, neither of which
\* existed when the call began
C12_Witness ==
    /\ pc = "collect"
    /\ \E i, j \in 1..Len(tasks) :
          /\ futures[i] = "done" /\ futures[j] = "done"
          /\ Parent(tasks[i].target) # Parent(tasks[j].target)
          /\ Parent(tasks[i].target) \notin EnsureDirs
          /\ Parent(tasks[j].target) \notin EnsureDirs
          /\ tasks[i].target \in DOMAIN files
          /\ tasks[j].target \in DOMAIN files

\* the tasks that have returned
Done == {i \in 1..Len(futures) : futures[i] = "done"}

\* C13: during fan-out the completion counter is changed only by the
\* coordinator: a step that changes it is the collection of one finished,
\* successful, not yet collected task and adds exactly one, and a step that
\* changes a future (a worker's step) leaves it alone; it never decreases; it
\* is the number of successful tasks collected, so never more than the number
\* of tasks that have finished; and it is the number of tasks when the call
\* returns.
C13_CompletionCounter ==
    /\ [][ FanOut => completed' >= completed ]_vars
    /\ [][ (FanOut /\ completed' # completed)
            => /\ completed' = completed + 1
               /\ pc = "collect"
               /\ futures' = futures
               /\ files' = files
               /\ \E i \in Done \ collected : collected' = collected \cup {i} ]_vars
    /\ [][ (FanOut /\ futures' # futures) => completed' = completed ]_vars
    /\ [][ (FanOut /\ \E i \in Done : collected' = collected \cup {i} /\ i \notin collected)
            => completed' = completed + 1 ]_vars
    /\ [](FanOut => /\ completed = Cardinality(collected \cap Done)
                    /\ completed <= Cardinality(Finished)
                    /\ completed <= Len(tasks))
    /\ [](pc = "returned" => completed = Len(tasks))

\* three tasks: two have finished, one of them has been counted, the third
\* is still running
C13_Witness ==
    /\ pc = "collect"
    /\ Len(tasks) = 3
    /\ completed = 1
    /\ Cardinality(Done) = 2
    /\ Cardinality(Running) = 1

----------------------------------------------------------------------------
(* Claims about termination of the fan-out, checked under SpecFair *)

\* the call has ended: it returned, or the failure it surfaced ended the program
Terminal == pc \in {"returned", "aborted"}

\* C14: with the pool of max_workers threads and N tasks, N from none to one
\* more than the pool has threads, every call reaches a terminal state; in a
\* terminal state every task has run; when none failed the call returned and
\* all N results were collected, and a call that did not return surfaced a
\* failure; a task that has started needs nothing from any other task to
\* finish (its write is enabled whatever the others do), and a queued task
\* starts as soon as a pool thread is free and the tasks submitted before it
\* have started.
C14_PipelineTerminates ==
    /\ <>Terminal
    /\ [](Terminal => Finished = 1..Len(tasks))
    /\ [](Terminal => Len(futures) = Len(tasks))
    /\ []((Terminal /\ \A i \in 1..Len(futures) : futures[i] = "done")
            => /\ pc = "returned"
               /\ collected = 1..Len(tasks)
               /\ completed = Len(tasks))
    /\ [](pc = "aborted" => \E i \in 1..Len(futures) : futures[i] = "failed")
    /\ [](\A i \in 1..Len(futures) :
            futures[i] = "running" => ENABLED (WorkerWrite(i) \/ WorkerFail(i)))
    /\ [](\A i \in 1..Len(futures) :
            (/\ futures[i] = "queued"
             /\ \A j \in 1..(i - 1) : futures[j] # "queued"
             /\ Cardinality(Running) < MaxWorkers)
            => ENABLED WorkerStart(i))

\* more tasks than pool threads: the pool is full and the last task waits
\* in the queue
C14_Witness ==
    /\ Len(futures) > MaxWorkers
    /\ Cardinality(Running) = MaxWorkers
    /\ futures[Len(futures)] = "queued"

----------------------------------------------------------------------------
(* Further claims about process_universities, checked under Spec *)

\* all the rows of the running partition, in row order
PartAllRows ==
    SelectSeq(rows, LAMBDA r : (r.time < ARCHIVE_TIME) <=> (cur = "archived"))

\* the warnings printed for a missing primary n by the call on partition part
MissingWarnings(part, n) ==
    {i \in 1..Len(log) : /\ log[i].kind = "alias primary missing"
                         /\ log[i].part = part
                         /\ log[i].name = n}

\* C15: when the primary of an alias line is no key of the registry, the
\* step prints one warning naming it and goes on to the next line: both
\* registries are as they were (no alias of the line is merged or removed,
\* no entry is created for the primary) and no alias of the line is looked
\* at.  With alias.txt that one line, the registry after the alias step is
\* the registry as loaded.
C15_MissingPrimarySkipped ==
    /\ [][ (pc = "alias" /\ li <= Len(aliasFile)
                /\ LineName(aliasFile[li]) \notin Keys(Reg))
            => /\ UNCHANGED registryVars
               /\ log' = Append(log, [kind |-> "alias primary missing",
                                      part |-> cur,
                                      name |-> LineName(aliasFile[li])])
               /\ pc' = "alias"
               /\ li' = li + 1
               /\ UNCHANGED <<ai, primary, cur>> ]_vars
    /\ []( (AtAliasEnd /\ Len(aliasFile) = 1 /\ PartRows(aliasFile[1][1]) = <<>>)
            => /\ Reg = LoadAll(EmptyRegistry, PartAllRows, 1)
               /\ aliasFile[1][1] \notin DOMAIN Reg.heap
               /\ Cardinality(MissingWarnings(cur, aliasFile[1][1])) = 1 )

\* the primary had no row in the partition and both its aliases had: after
\* the alias step both are still keys
C15_Witness ==
    /\ AtAliasEnd
    /\ aliasFile = <<<<NameP, NameA, NameB>>>>
    /\ NameP \notin Keys(Reg)
    /\ NameA \in Keys(Reg)
    /\ NameB \in Keys(Reg)
    /\ MissingWarnings(cur, NameP) # {}

----------------------------------------------------------------------------
(* A further claim about FilenameMap, checked under SpecSlug *)

\* the lookup the step has just made
NewLookup == lookups'[Len(lookups')]

\* f'{base}-{k}'
Suffixed(base, k) == base \o <<"-">> \o Decimal(k)

\* C16: a lookup of a name that has no slug yet returns the base of the name
\* when the base is not in used; otherwise it returns base-k for the
\* smallest k >= 2 with base-k not in used at that moment, every base-j with
\* 2 <= j < k being in used, whether it got there as a counter slug or as
\* another name's own base.
C16_SmallestFreeSuffix ==
    [][ (Len(lookups') = Len(lookups) + 1 /\ NewLookup[1] \notin DOMAIN mapping)
        => LET base == slugify(RemoveChars(NewLookup[1], FILENAME_PREPROCESS))
               slug == NewLookup[2]
           IN  /\ slug \notin used
               /\ base \notin used => slug = base
               /\ base \in used
                    => \E k \in 2..(MaxLookups + 2) :
                         /\ slug = Suffixed(base, k)
                         /\ \A j \in 2..(k - 1) : Suffixed(base, j) \in used
       ]_vars

\* "x-2" got its own base "x-2", then two names of base "x" were assigned:
\* the second of them got "x-3"
C16_Witness ==
    /\ Cardinality(DOMAIN mapping) = 3
    /\ <<"x", "-", "2">> \in DOMAIN mapping
    /\ mapping[<<"x", "-", "2">>] = <<"x", "-", "2">>
    /\ \E n \in DOMAIN mapping :
          /\ slugify(RemoveChars(n, FILENAME_PREPROCESS)) = <<"x">>
          /\ mapping[n] = <<"x", "-", "3">>

----------------------------------------------------------------------------
(* Claims about the registry's keys and records, checked under Spec *)

\* how often the record of row aid occurs in a list of records
CountIn(list, aid) == Cardinality({i \in 1..Len(list) : list[i].answer_id = aid})

RECURSIVE CreditCount(_, _, _)
\* how often the attribution record of row aid occurs over the entities of
\* the keys ks[i..] of reg
CreditCount(reg, i, aid) ==
    IF i > Len(reg.keys) THEN 0
    ELSE CountIn(reg.heap[reg.keys[i]].credits, aid) + CreditCount(reg, i + 1, aid)

RECURSIVE CreditTotal(_, _)
\* the number of attribution records over the entities of the keys ks[i..]
CreditTotal(reg, i) ==
    IF i > Len(reg.keys) THEN 0
    ELSE Len(reg.heap[reg.keys[i]].credits) + CreditTotal(reg, i + 1)

\* the alias lines whose primary was a key when the line was processed by
\* the running call (no line of the model's tables repeats a primary)
LinesWithPrimary ==
    {l \in 1..Len(aliasFile) : MissingWarnings(cur, LineName(aliasFile[l])) = {}}

\* C17 (as stated): after the alias step the attribution records over all
\* entities of the registry are those of before, each row of the partition
\* having exactly one, and every primary that was a key when its line was
\* processed is still a key.
C17_RecordsPreserved ==
    AtAliasEnd
    => /\ \A k \in 1..Len(PartAllRows) :
            CreditCount(Reg, 1, PartAllRows[k].aid) = 1
       /\ CreditTotal(Reg, 1) = Len(PartAllRows)
       /\ \A l \in LinesWithPrimary : LineName(aliasFile[l]) \in Keys(Reg)

\* ks is what is left of ls after dropping some of its items
IsSubSeq(ks, ls) ==
    /\ Range(ks) \subseteq Range(ls)
    /\ ks = SelectSeq(ls, LAMBDA k : k \in Range(ks))

\* the names the rows of partition part were loaded under
LoadedNames(part) ==
    {NormalizeName(rows[i].name) :
        i \in {j \in 1..Len(rows) : (rows[j].time < ARCHIVE_TIME) <=> (part = "archived")}}

\* C18: no step of process_universities (alias, blacklist, anomaly scan)
\* adds a key to either registry or creates an aggregate: the keys after the
\* step are keys of before, in the same order; hence the keys of a registry
\* after process_universities are names its rows were loaded under.
C18_NoKeyAdded ==
    /\ [][ (pc \in ProcessPcs)
            => /\ IsSubSeq(universities'.keys, universities.keys)
               /\ IsSubSeq(universities_archived'.keys, universities_archived.keys)
               /\ DOMAIN universities'.heap = DOMAIN universities.heap
               /\ DOMAIN universities_archived'.heap
                    = DOMAIN universities_archived.heap ]_vars
    /\ [](\A part \in {"active", "archived"} :
            (pc \in ProcessPcs \/ pc \in WritePcs)
            => /\ Keys(PartReg(part)) \subseteq LoadedNames(part)
               /\ DOMAIN PartReg(part).heap = LoadedNames(part))

\* the scan of a call is over in which the primary of the alias line was no
\* key (looked up with get) and the one key, a name without institution
\* marker, was flagged by the scan and looked up by index
C18_Witness ==
    /\ pc = "scan"
    /\ li > Len(Reg.keys)
    /\ aliasFile = <<<<NameP, NameA, NameB>>>>
    /\ blacklistFile = <<>>
    /\ PartRows(NameP) = <<>>
    /\ PartRows(NameA) = <<>>
    /\ Reg.keys = <<NameB>>
    /\ InvalidWarnings(cur, NameB) = 1

----------------------------------------------------------------------------
(* A claim about the two partitions, checked under Spec *)

\* the registry meant for a row of submission time t, by the cutoff rule
\* as the claim words it: archived if and only if strictly before the cutoff
CutoffReg(t) == IF t < ARCHIVE_TIME THEN universities_archived ELSE universities
CutoffRegAfter(t) == IF t < ARCHIVE_TIME THEN universities_archived' ELSE universities'
CutoffOther(t) == IF t < ARCHIVE_TIME THEN universities ELSE universities_archived
CutoffOtherAfter(t) == IF t < ARCHIVE_TIME THEN universities' ELSE universities_archived'

\* how often the attribution record of row aid occurs in any aggregate of reg
HeapCount(reg, aid) ==
    Cardinality({<<n, i>> \in UNION {{n} \X (1..Len(reg.heap[n].credits)) :
                                         n \in DOMAIN reg.heap} :
                    reg.heap[n].credits[i].answer_id = aid})

\* the page of an entity under the site's docs directory is below
\* archived/ exactly for the archived call
UnderArchived(target) == Len(target) >= 4 /\ target[4] = <<"archived">>

\* C19: loading a row changes exactly one registry, the archived one if and
\* only if the row's time is strictly before the cutoff (a row at the cutoff
\* goes to the active one): the entity of the row's normalized name there
\* gets exactly one attribution record, appended, every other entity and the
\* other registry are as before; when loading is over every row has one
\* attribution record in its registry and none in the other.  Then each call
\* of process_universities and of write_markdown_for_universities leaves the
\* registry of the other partition alone, each write call starts with an
\* empty FilenameMap and assigns slugs to names of its own registry only,
\* and writes its pages below its own directory.
C19_PartitionByCutoff ==
    /\ [][ Len(rows') = Len(rows) + 1
            => LET row == NewRow
                   n == NormalizeName(row.name)
                   before == CutoffReg(row.time)
                   after == CutoffRegAfter(row.time)
               IN  /\ CutoffOtherAfter(row.time) = CutoffOther(row.time)
                   /\ n \in Keys(after)
                   /\ after.heap[n].credits =
                        UniOf(before, n).credits
                          \o <<IndexedContent(row.aid, CreditText(row))>>
                   /\ \A m \in DOMAIN before.heap \ {n} :
                        after.heap[m] = before.heap[m]
                   /\ DOMAIN after.heap = DOMAIN before.heap \cup {n} ]_vars
    /\ [](pc = "load"
            => \A k \in 1..Len(rows) :
                 /\ NormalizeName(rows[k].name) \in Keys(CutoffReg(rows[k].time))
                 /\ CountIn(CutoffReg(rows[k].time).heap[NormalizeName(rows[k].name)].credits,
                            rows[k].aid) = 1
                 /\ HeapCount(CutoffReg(rows[k].time), rows[k].aid) = 1
                 /\ HeapCount(CutoffOther(rows[k].time), rows[k].aid) = 0)
    /\ [][ (pc \in ProcessPcs \/ pc \in WritePcs) => OtherRegUnchanged ]_vars
    /\ [][ (pc \in WritePcs) => UNCHANGED registryVars ]_vars
    /\ [](pc = "tasks" /\ li = 1 => mapping = EmptyMap /\ used = {})
    /\ [](pc \in WritePcs
            => /\ DOMAIN mapping \subseteq Keys(Reg)
               /\ \A i \in 1..Len(tasks) :
                    /\ tasks[i].name \in Keys(Reg)
                    /\ UnderArchived(tasks[i].target) <=> (cur = "archived"))

\* a row before the cutoff and a row exactly at it, both of the same name:
\* the program has ended with a page for the name in each partition, both
\* with the slug a fresh FilenameMap gives
C19_Witness ==
    /\ pc = "done"
    /\ \E i, j \in 1..Len(rows) :
          /\ rows[i].time = ARCHIVE_TIME
          /\ rows[j].time = ARCHIVE_TIME - 1
          /\ NormalizeName(rows[i].name) = NameP
          /\ NormalizeName(rows[j].name) = NameP
    /\ NameP \in Keys(universities)
    /\ NameP \in Keys(universities_archived)
    /\ \E f, g \in DOMAIN files :
          /\ ~UnderArchived(f) /\ UnderArchived(g)
          /\ f # IndexFile(Parent(f)) /\ g # IndexFile(Parent(g))
          /\ files[f].title = NameP /\ files[g].title = NameP
          /\ files[f].slug = files[g].slug
          /\ files[f].uni = universities.heap[NameP]
          /\ files[g].uni = universities_archived.heap[NameP]

====
